---- MODULE Spec2Model ----
(***************************************************************************)
(* Model of pythontest.py: the slideshow pipeline driven by main().        *)
(*                                                                         *)
(* The program is sequential.  Each action below is one step of main():    *)
(* a pre-flight check, one library call, or one external process           *)
(* invocation together with the validation and the exception handling      *)
(* that the enclosing function wraps around it.  The outcome of an         *)
(* external process (exit status, whether the produced file carries an     *)
(* audio stream, the duration a probe reports) is chosen by the            *)
(* environment.                                                            *)
(*                                                                         *)
(* Python floats are IEEE-754 binary64.  TLC integers are 32 bits wide, so *)
(* a float is kept as a 53-bit significand (a little-endian sequence of    *)
(* limbs) and a binary exponent, and /, *, + and - round to nearest, ties  *)
(* to even, as the interpreter does.                                       *)
(***************************************************************************)
EXTENDS Integers, Sequences, FiniteSets, TLC

(***************************************************************************)
(* Bounds of the model.                                                    *)
(***************************************************************************)
MaxImages == 5
MaxMusics == 2
MaxDuration == 3
MaxMusicSeconds == 1

(***************************************************************************)
(* Constants of binary64 arithmetic and of the program.                    *)
(***************************************************************************)
MantissaBits == 53
\* a quarter of the significand: a limb times a small factor stays within
\* TLC's 32-bit integers
LimbBits == MantissaBits \div 4
DivisionGuardBits == MantissaBits + 12

(***************************************************************************)
(* Arbitrary-precision naturals: little-endian sequences of limbs in base  *)
(* 2^LimbBits, no high zero limb; <<>> is zero.                            *)
(***************************************************************************)
LimbBase == 2 ^ LimbBits

MinOf(x, y) == IF x <= y THEN x ELSE y

RECURSIVE NatToBig(_)
NatToBig(k) == IF k = 0 THEN <<>> ELSE <<k % LimbBase>> \o NatToBig(k \div LimbBase)

TrimBig(x) ==
    IF \A j \in 1..Len(x) : x[j] = 0 THEN <<>>
    ELSE SubSeq(x, 1, CHOOSE j \in 1..Len(x) :
                        x[j] # 0 /\ \A k \in (j + 1)..Len(x) : x[k] = 0)

LimbAt(x, j) == IF j >= 1 /\ j <= Len(x) THEN x[j] ELSE 0

\* number of significant bits of a limb
LimbLen(v) == CHOOSE j \in 0..LimbBits : v < 2 ^ j /\ (j = 0 \/ v >= 2 ^ (j - 1))

BitLen(x) == IF x = <<>> THEN 0 ELSE (Len(x) - 1) * LimbBits + LimbLen(x[Len(x)])

\* bit p of x, p counted from 0 at the low end
BitAt(x, p) == (LimbAt(x, (p \div LimbBits) + 1) \div (2 ^ (p % LimbBits))) % 2

RECURSIVE MulSmallFrom(_, _, _, _)
MulSmallFrom(x, k, j, carry) ==
    IF j > Len(x) THEN NatToBig(carry)
    ELSE <<(x[j] * k + carry) % LimbBase>>
         \o MulSmallFrom(x, k, j + 1, (x[j] * k + carry) \div LimbBase)

\* x * k for k < 2^17
MulSmall(x, k) == TrimBig(MulSmallFrom(x, k, 1, 0))

RECURSIVE AddFrom(_, _, _, _)
AddFrom(x, y, j, carry) ==
    IF j > Len(x) /\ j > Len(y) THEN NatToBig(carry)
    ELSE <<(LimbAt(x, j) + LimbAt(y, j) + carry) % LimbBase>>
         \o AddFrom(x, y, j + 1, (LimbAt(x, j) + LimbAt(y, j) + carry) \div LimbBase)

AddBig(x, y) == TrimBig(AddFrom(x, y, 1, 0))

\* x - y for x >= y
RECURSIVE SubFrom(_, _, _, _)
SubFrom(x, y, j, borrow) ==
    IF j > Len(x) THEN <<>>
    ELSE IF LimbAt(x, j) - LimbAt(y, j) - borrow < 0
         THEN <<LimbAt(x, j) - LimbAt(y, j) - borrow + LimbBase>> \o SubFrom(x, y, j + 1, 1)
         ELSE <<LimbAt(x, j) - LimbAt(y, j) - borrow>> \o SubFrom(x, y, j + 1, 0)

SubBig(x, y) == TrimBig(SubFrom(x, y, 1, 0))

\* -1, 0, 1 as x < y, x = y, x > y
CmpBig(x, y) ==
    IF Len(x) > Len(y) THEN 1
    ELSE IF Len(x) < Len(y) THEN -1
    ELSE IF x = y THEN 0
    ELSE LET top == CHOOSE j \in 1..Len(x) :
                      x[j] # y[j] /\ \A k \in (j + 1)..Len(x) : x[k] = y[k]
         IN  IF x[top] > y[top] THEN 1 ELSE -1

\* floor(x / n) and x mod n for n < 2^17, most significant limb first
RECURSIVE DivSmallFrom(_, _, _, _)
DivSmallFrom(x, n, j, r) ==
    IF j = 0 THEN [q |-> <<>>, r |-> r]
    ELSE LET rest == DivSmallFrom(x, n, j - 1, (r * LimbBase + x[j]) % n)
         IN  [q |-> rest.q \o <<(r * LimbBase + x[j]) \div n>>, r |-> rest.r]

DivSmall(x, n) ==
    [q |-> TrimBig(DivSmallFrom(x, n, Len(x), 0).q),
     r |-> DivSmallFrom(x, n, Len(x), 0).r]

ShiftLeft(x, s) ==
    IF x = <<>> THEN <<>>
    ELSE [j \in 1..(s \div LimbBits) |-> 0] \o MulSmall(x, 2 ^ (s % LimbBits))

\* floor(x / 2^s)
ShiftRight(x, s) ==
    IF s \div LimbBits >= Len(x) THEN <<>>
    ELSE DivSmall(SubSeq(x, (s \div LimbBits) + 1, Len(x)), 2 ^ (s % LimbBits)).q

\* x mod 2^s # 0
AnyLowBit(x, s) ==
    \/ \E j \in 1..MinOf(s \div LimbBits, Len(x)) : x[j] # 0
    \/ LimbAt(x, (s \div LimbBits) + 1) % (2 ^ (s % LimbBits)) # 0

(***************************************************************************)
(* binary64 values >= 0: [m |-> a 53-bit natural with the top bit set,     *)
(* e |-> the exponent of its lowest bit]; zero is [m |-> <<>>, e |-> 0].   *)
(***************************************************************************)
FloatZero == [m |-> <<>>, e |-> 0]

\* the 53 kept bits after the low k bits of x are rounded away
\* (to nearest, ties to even); 54 bits when the rounding carries out
RoundedMantissa(x, k, sticky) ==
    IF BitAt(x, k - 1) = 1
       /\ (sticky \/ AnyLowBit(x, k - 1) \/ BitAt(x, k) = 1)
    THEN AddBig(ShiftRight(x, k), <<1>>)
    ELSE ShiftRight(x, k)

\* round the value x * 2^e (plus a positive amount below 2^e when sticky)
RoundToFloat(x, e, sticky) ==
    IF x = <<>> THEN FloatZero
    ELSE IF BitLen(x) <= MantissaBits
    THEN [m |-> ShiftLeft(x, MantissaBits - BitLen(x)),
          e |-> e - (MantissaBits - BitLen(x))]
    ELSE LET k   == BitLen(x) - MantissaBits
             inc == RoundedMantissa(x, k, sticky)
         IN  IF BitLen(inc) > MantissaBits
             THEN [m |-> ShiftRight(inc, 1), e |-> e + k + 1]
             ELSE [m |-> inc, e |-> e + k]

IntToFloat(k) == RoundToFloat(NatToBig(k), 0, FALSE)

\* int / int: true division, correctly rounded
FloatDivInt(a, n) ==
    LET res == DivSmall(ShiftLeft(NatToBig(a), DivisionGuardBits), n)
    IN  RoundToFloat(res.q, 0 - DivisionGuardBits, res.r # 0)

\* int * float (the int converts exactly, the product is rounded once)
FloatMulInt(k, f) == RoundToFloat(MulSmall(f.m, k), f.e, FALSE)

AlignedExp(f, g) ==
    IF f.m = <<>> THEN g.e ELSE IF g.m = <<>> THEN f.e ELSE MinOf(f.e, g.e)

Aligned(f, low) == ShiftLeft(f.m, f.e - low)

FloatAdd(f, g) ==
    RoundToFloat(AddBig(Aligned(f, AlignedExp(f, g)), Aligned(g, AlignedExp(f, g))),
                 AlignedExp(f, g), FALSE)

FloatCmp(f, g) ==
    CmpBig(Aligned(f, AlignedExp(f, g)), Aligned(g, AlignedExp(f, g)))

\* f - g for f >= g
FloatSub(f, g) ==
    RoundToFloat(SubBig(Aligned(f, AlignedExp(f, g)), Aligned(g, AlignedExp(f, g))),
                 AlignedExp(f, g), FALSE)

FloatGreater(f, g) == FloatCmp(f, g) = 1

(***************************************************************************)
(* Paths.  A path is [dir, stem, num, ext]: the directory, the fixed part  *)
(* of the file name, the digits a format specifier produced, and the       *)
(* extension.                                                              *)
(***************************************************************************)
ScriptDir == "script_dir"
TEMP_DIR == "temp"

NoPath == [dir |-> "", stem |-> "", num |-> <<>>, ext |-> ""]

RECURSIVE Decimal(_)
Decimal(k) == IF k < 10 THEN <<k>> ELSE Decimal(k \div 10) \o <<k % 10>>

\* f"{index:02d}"
Format02d(index) == IF index < 10 THEN <<0>> \o Decimal(index) ELSE Decimal(index)

TempDirPath == ScriptDir \o "/" \o TEMP_DIR

TempImagePath(index) ==
    [dir |-> TempDirPath, stem |-> "temp_image_", num |-> Format02d(index), ext |-> ".jpg"]

\* a clip name that ignores the index
AdjustedMusicPathShared(index) ==
    [dir |-> TempDirPath, stem |-> "adjusted_music_", num |-> <<>>, ext |-> ".mp3"]

AdjustedMusicPath(index) ==
    [dir |-> TempDirPath, stem |-> "adjusted_music_", num |-> Format02d(index), ext |-> ".mp3"]

SegmentPath(index) ==
    [dir |-> TempDirPath, stem |-> "segment_", num |-> Decimal(index), ext |-> ".mp4"]

ListFilePath == [dir |-> TempDirPath, stem |-> "video_list", num |-> <<>>, ext |-> ".txt"]

ConcatenatedPath == [dir |-> TempDirPath, stem |-> "concatenated", num |-> <<>>, ext |-> ".mp4"]

ExtractedAudioPath == [dir |-> TempDirPath, stem |-> "extracted_audio", num |-> <<>>, ext |-> ".mp3"]

\* the command line arguments: relative paths
ImageArg(k) == [dir |-> "", stem |-> "image", num |-> Decimal(k), ext |-> ".jpg"]
MusicArg(k) == [dir |-> "", stem |-> "music", num |-> Decimal(k), ext |-> ".mp3"]
OutputArg == [dir |-> "", stem |-> "final_video", num |-> <<>>, ext |-> ".mp4"]

\* os.path.abspath(os.path.join(script_dir, path) if not os.path.isabs(path) else path)
AbsPath(path) == IF path.dir = "" THEN [path EXCEPT !.dir = ScriptDir] ELSE path

(***************************************************************************)
(* State.                                                                  *)
(***************************************************************************)
VARIABLES
    args,               \* parsed command line: images, musics, duration, output
    ffmpeg_found,       \* environment: the encoder binary is present
    missing,            \* environment: absolute input paths that do not exist
    music_seconds,      \* environment: the duration of each music file
    pc,                 \* position in main()
    exc,                \* the exception propagating out of main(), if any
    log,                \* what has been printed
    temp_dir_created,   \* the scratch directory was created by this run
    disk,               \* files written by this run: path -> content
    events,             \* library and external process calls, in order
    cmd,                \* the last external command line built
    image_paths, music_paths, duration_per_image, temp_videos,
    i, music_path, start_time, temp_image, music_duration, adjusted_music

vars == <<args, ffmpeg_found, missing, music_seconds, pc, exc, log, temp_dir_created,
          disk, events, cmd, image_paths, music_paths, duration_per_image, temp_videos,
          i, music_path, start_time, temp_image, music_duration, adjusted_music>>

env == <<args, ffmpeg_found, missing, music_seconds>>

NoException == [type |-> "none", stage |-> "none"]

Outcomes == {"exit_nonzero", "no_audio", "ok"}

Content(kind, images, musics, lines, audio) ==
    [kind |-> kind, images |-> images, musics |-> musics, lines |-> lines, audio |-> audio]

Event(step, index, reads, writes, ok, ss, t) ==
    [step |-> step, index |-> index, reads |-> reads, writes |-> writes, ok |-> ok,
     ss |-> ss, t |-> t]

Write(d, path, content) ==
    [q \in (DOMAIN d) \cup {path} |-> IF q = path THEN content ELSE d[q]]

Exists(path) == path \in DOMAIN disk

EmptyDisk == [q \in {} |-> Content("", <<>>, <<>>, <<>>, FALSE)]

Init ==
    /\ \E n \in 1..MaxImages, m \in 1..MaxMusics, d \in 1..MaxDuration :
         args = [images |-> [k \in 1..n |-> ImageArg(k)],
                 musics |-> [k \in 1..m |-> MusicArg(k)],
                 duration |-> d,
                 output |-> OutputArg]
    /\ ffmpeg_found \in BOOLEAN
    /\ \E gone \in {AbsPath(args.images[k]) : k \in 1..Len(args.images)}
                   \cup {AbsPath(args.musics[k]) : k \in 1..Len(args.musics)}
                   \cup {NoPath} :
         missing = {gone} \ {NoPath}
    /\ music_seconds \in [{AbsPath(args.musics[k]) : k \in 1..Len(args.musics)}
                            -> 1..MaxMusicSeconds]
    /\ pc = "check_ffmpeg"
    /\ exc = NoException
    /\ log = <<>>
    /\ temp_dir_created = FALSE
    /\ disk = EmptyDisk
    /\ events = <<>>
    /\ cmd = <<>>
    /\ image_paths = <<>>
    /\ music_paths = <<>>
    /\ duration_per_image = FloatZero
    /\ temp_videos = <<>>
    /\ i = 0
    /\ music_path = NoPath
    /\ start_time = FloatZero
    /\ temp_image = NoPath
    /\ music_duration = FloatZero
    /\ adjusted_music = NoPath

locals == <<image_paths, music_paths, duration_per_image, temp_videos,
            i, music_path, start_time, temp_image, music_duration, adjusted_music>>

(***************************************************************************)
(* Helpers of the program.                                                 *)
(***************************************************************************)
\* check_ffmpeg: raises RuntimeError unless the binary is found
check_ffmpeg == ffmpeg_found

\* a resolve_path that never raises
PathAlwaysExists(abs_path) == TRUE

\* resolve_path's existence test
PathExists(abs_path) == abs_path \notin missing

\* a validation whose result is ignored
AudioStreamAssumed(d, file_path) == TRUE

\* check_audio_stream: "STREAM" in the probe's output
check_audio_stream(d, file_path) == d[file_path].audio

\* the last track reused instead of a rotation
MusicIndexClamped(index, music_count) == MinOf(index, music_count - 1)

\* music_paths[i % len(music_paths)], as a 0-based index
MusicIndex(index, music_count) == index % music_count

\* offsets counted from the 1-based index
StartTimeOneBased(index, per_image) == FloatMulInt(index + 1, per_image)

\* i * duration_per_image
StartTime(index, per_image) == FloatMulInt(index, per_image)

\* args.duration / len(image_paths)
DurationPerImage(total, image_count) == FloatDivInt(total, image_count)

\* start_time + duration > music_duration
LoopNeeded(start, duration, source_duration) ==
    FloatGreater(FloatAdd(start, duration), source_duration)

\* list.insert(index, token), index counted from 0
Insert(list, index, token) ==
    SubSeq(list, 1, index) \o <<token>> \o SubSeq(list, index + 1, Len(list))

AdjustMusicCmd(loop) ==
    LET base == <<"ffmpeg", "-y", "-i", "music_path", "-ss", "start_time",
                  "-t", "duration", "-vn", "-c:a", "mp3", "-b:a", "192k", "adjusted_path">>
    IN  IF loop THEN Insert(Insert(base, 4, "-stream_loop"), 5, "-1") ELSE base

SegmentCmd ==
    <<"ffmpeg", "-y", "-loop", "1", "-i", "image_path", "-i", "adjusted_music",
      "-c:v", "libx264", "-c:a", "mp3", "-b:a", "192k", "-map", "0:v:0",
      "-map", "1:a:0", "-t", "duration", "-pix_fmt", "yuv420p", "-s", "1920x1080",
      "output_path">>

ConcatCmd ==
    <<"ffmpeg", "-y", "-f", "concat", "-safe", "0", "-i", "list_file", "-c", "copy",
      "output_path">>

ExtractCmd ==
    <<"ffmpeg", "-y", "-i", "concatenated_video", "-vn", "-c:a", "mp3", "-b:a", "192k",
      "extracted_audio">>

AttachCmd ==
    <<"ffmpeg", "-y", "-i", "video_path", "-i", "audio_path", "-c:v", "copy",
      "-c:a", "copy", "-map", "0:v:0", "-map", "1:a:0", "-t", "duration",
      "-pix_fmt", "yuv420p", "output_path">>

\* temp_videos.insert(0, temp_video)
PrependVideo(videos, video) == <<video>> \o videos

\* temp_videos.append(temp_video)
AppendVideo(videos, video) == Append(videos, video)

\* no single-segment shortcut
NeverSingleVideo(video_paths) == FALSE

\* len(video_paths) == 1
SingleVideo(video_paths) == Len(video_paths) = 1

RECURSIVE FlattenImages(_, _)
FlattenImages(d, lines) ==
    IF lines = <<>> THEN <<>> ELSE d[Head(lines)].images \o FlattenImages(d, Tail(lines))

RECURSIVE FlattenMusics(_, _)
FlattenMusics(d, lines) ==
    IF lines = <<>> THEN <<>> ELSE d[Head(lines)].musics \o FlattenMusics(d, Tail(lines))

Raise(type, stage) ==
    /\ exc' = [type |-> type, stage |-> stage]
    /\ pc' = "raised"

(***************************************************************************)
(* main(), one action per step.                                            *)
(***************************************************************************)
\* lines 224-229
CheckFfmpeg ==
    /\ pc = "check_ffmpeg"
    /\ IF check_ffmpeg
       THEN /\ pc' = "ensure_temp_dir"
            /\ log' = log
       ELSE /\ pc' = "returned"
            /\ log' = Append(log, "ffmpeg_not_found")
    /\ UNCHANGED <<env, exc, temp_dir_created, disk, events, cmd, locals>>

\* lines 232-233
EnsureTempDir ==
    /\ pc = "ensure_temp_dir"
    /\ temp_dir_created' = TRUE
    /\ pc' = "resolve"
    /\ UNCHANGED <<env, exc, log, disk, events, cmd, locals>>

\* lines 234-243
ResolvePaths ==
    /\ pc = "resolve"
    /\ LET images == [k \in 1..Len(args.images) |-> AbsPath(args.images[k])]
           musics == [k \in 1..Len(args.musics) |-> AbsPath(args.musics[k])]
       IN  IF \A k \in 1..Len(images) : PathExists(images[k])
           THEN IF \A k \in 1..Len(musics) : PathExists(musics[k])
                THEN /\ image_paths' = images
                     /\ music_paths' = musics
                     /\ duration_per_image' = DurationPerImage(args.duration, Len(images))
                     /\ log' = Append(log, "duration_per_image")
                     /\ pc' = "process_image"
                ELSE /\ image_paths' = images
                     /\ log' = Append(log, "file_not_found")
                     /\ pc' = "returned"
                     /\ UNCHANGED <<music_paths, duration_per_image>>
           ELSE /\ log' = Append(log, "file_not_found")
                /\ pc' = "returned"
                /\ UNCHANGED <<image_paths, music_paths, duration_per_image>>
    /\ UNCHANGED <<env, exc, temp_dir_created, disk, events, cmd, temp_videos,
                   i, music_path, start_time, temp_image, music_duration, adjusted_music>>

\* lines 247-250 and process_image (40-100)
ProcessImage(outcome) ==
    /\ pc = "process_image"
    /\ outcome \in {"error", "ok"}
    /\ music_path' = music_paths[MusicIndex(i, Len(music_paths)) + 1]
    /\ start_time' = StartTime(i, duration_per_image)
    /\ LET image_path == image_paths[i + 1]
           path == TempImagePath(i + 1)
       IN  IF outcome = "ok"
           THEN /\ disk' = Write(disk, path, Content("frame", <<image_path>>, <<>>, <<>>, FALSE))
                /\ events' = Append(events, Event("render", i + 1, {image_path}, {path},
                                                  TRUE, FloatZero, FloatZero))
                /\ log' = log \o <<"processing_image", "saved_image">>
                /\ temp_image' = path
                /\ pc' = "probe_music"
                /\ exc' = exc
           ELSE /\ events' = Append(events, Event("render", i + 1, {image_path}, {},
                                                  FALSE, FloatZero, FloatZero))
                /\ log' = log \o <<"processing_image", "error_process_image">>
                /\ Raise("Exception", "process_image")
                /\ UNCHANGED <<disk, temp_image>>
    /\ UNCHANGED <<env, temp_dir_created, cmd, image_paths, music_paths,
                   duration_per_image, temp_videos, i, music_duration, adjusted_music>>

\* line 169 and get_audio_duration (156-165)
GetMusicDuration(outcome) ==
    /\ pc = "probe_music"
    /\ outcome \in {"exit_nonzero", "ok"}
    /\ IF outcome = "ok"
       THEN /\ music_duration' = IntToFloat(music_seconds[music_path])
            /\ events' = Append(events, Event("probe_duration", i + 1, {music_path}, {},
                                              TRUE, FloatZero, FloatZero))
            /\ log' = Append(log, "duration_of")
            /\ pc' = "adjust_music"
            /\ exc' = exc
       ELSE /\ events' = Append(events, Event("probe_duration", i + 1, {music_path}, {},
                                              FALSE, FloatZero, FloatZero))
            /\ Raise("CalledProcessError", "get_audio_duration")
            /\ UNCHANGED <<music_duration, log>>
    /\ UNCHANGED <<env, temp_dir_created, disk, cmd, image_paths, music_paths,
                   duration_per_image, temp_videos, i, music_path, start_time,
                   temp_image, adjusted_music>>

\* adjust_music, lines 170-187
AdjustMusic(outcome) ==
    /\ pc = "adjust_music"
    /\ outcome \in Outcomes
    /\ LET adjusted_path == AdjustedMusicPath(i + 1)
           loop == LoopNeeded(start_time, duration_per_image, music_duration)
           warn == IF loop THEN <<"looping_warning">> ELSE <<>>
           written == Write(disk, adjusted_path,
                            Content("clip", <<>>, <<music_path>>, <<>>, outcome = "ok"))
           run(ok) == Event("trim", i + 1, {music_path},
                            IF ok THEN {adjusted_path} ELSE {}, ok,
                            start_time, duration_per_image)
           probe(ok) == Event("probe_streams", i + 1, {adjusted_path}, {}, ok,
                              FloatZero, FloatZero)
       IN  /\ cmd' = AdjustMusicCmd(loop)
           /\ IF outcome = "exit_nonzero"
              THEN /\ events' = Append(events, run(FALSE))
                   /\ log' = log \o warn \o <<"error_adjust_music">>
                   /\ Raise("CalledProcessError", "adjust_music")
                   /\ UNCHANGED <<disk, adjusted_music>>
              ELSE /\ disk' = written
                   /\ IF check_audio_stream(written, adjusted_path)
                      THEN /\ events' = events \o <<run(TRUE), probe(TRUE)>>
                           /\ log' = log \o warn \o <<"adjusted_music", "audio_confirmed">>
                           /\ adjusted_music' = adjusted_path
                           /\ pc' = "create_segment"
                           /\ exc' = exc
                      ELSE /\ events' = events \o <<run(TRUE), probe(FALSE)>>
                           /\ log' = log \o warn \o <<"adjusted_music", "no_audio_warning">>
                           /\ Raise("RuntimeError", "adjust_music")
                           /\ UNCHANGED adjusted_music
    /\ UNCHANGED <<env, temp_dir_created, image_paths, music_paths, duration_per_image,
                   temp_videos, i, music_path, start_time, temp_image, music_duration>>

\* create_image_video_with_audio, lines 116-131, and lines 251-255
CreateSegment(outcome) ==
    /\ pc = "create_segment"
    /\ outcome \in Outcomes
    /\ LET temp_video == SegmentPath(i + 1)
           written == Write(disk, temp_video,
                            Content("segment", disk[temp_image].images,
                                    disk[adjusted_music].musics, <<>>, outcome = "ok"))
           run(ok) == Event("encode", i + 1, {temp_image, adjusted_music},
                            IF ok THEN {temp_video} ELSE {}, ok,
                            FloatZero, duration_per_image)
           probe(ok) == Event("probe_streams", i + 1, {temp_video}, {}, ok,
                              FloatZero, FloatZero)
       IN  /\ cmd' = SegmentCmd
           /\ IF outcome = "exit_nonzero"
              THEN /\ events' = Append(events, run(FALSE))
                   /\ log' = log \o <<"creating_segment", "error_creating_segment">>
                   /\ Raise("CalledProcessError", "create_image_video_with_audio")
                   /\ UNCHANGED <<disk, temp_videos, i>>
              ELSE /\ disk' = written
                   /\ IF check_audio_stream(written, temp_video)
                      THEN /\ events' = events \o <<run(TRUE), probe(TRUE)>>
                           /\ log' = log \o <<"creating_segment", "created_segment",
                                              "audio_confirmed">>
                           /\ temp_videos' = AppendVideo(temp_videos, temp_video)
                           /\ i' = i + 1
                           /\ pc' = IF i + 1 < Len(image_paths)
                                    THEN "process_image" ELSE "concatenate"
                           /\ exc' = exc
                      ELSE /\ events' = events \o <<run(TRUE), probe(FALSE)>>
                           /\ log' = log \o <<"creating_segment", "created_segment",
                                              "no_audio_warning">>
                           /\ Raise("RuntimeError", "create_image_video_with_audio")
                           /\ UNCHANGED <<temp_videos, i>>
    /\ UNCHANGED <<env, temp_dir_created, image_paths, music_paths, duration_per_image,
                   music_path, start_time, temp_image, music_duration, adjusted_music>>

\* lines 258-259 and concatenate_videos (134-153)
Concatenate(outcome) ==
    /\ pc = "concatenate"
    /\ outcome \in Outcomes
    /\ LET video_paths == temp_videos
           output_path == ConcatenatedPath
           list_file == ListFilePath
           listed == Write(disk, list_file,
                           Content("list", <<>>, <<>>,
                                   [k \in 1..Len(video_paths) |-> AbsPath(video_paths[k])],
                                   FALSE))
           written == Write(listed, output_path,
                            Content("concat", FlattenImages(listed, listed[list_file].lines),
                                    FlattenMusics(listed, listed[list_file].lines),
                                    <<>>, outcome = "ok"))
           manifest == Event("write_manifest", 0, {}, {list_file}, TRUE, FloatZero, FloatZero)
           run(ok) == Event("concat", 0,
                            {list_file} \cup {video_paths[k] : k \in 1..Len(video_paths)},
                            IF ok THEN {output_path} ELSE {}, ok, FloatZero, FloatZero)
           probe(ok) == Event("probe_streams", 0, {output_path}, {}, ok,
                              FloatZero, FloatZero)
       IN  IF SingleVideo(video_paths)
           THEN /\ outcome = "ok"
                /\ disk' = Write(disk, output_path, disk[video_paths[1]])
                /\ events' = Append(events, Event("copy", 0, {video_paths[1]}, {output_path},
                                                  TRUE, FloatZero, FloatZero))
                /\ log' = Append(log, "copied_single")
                /\ pc' = "extract"
                /\ UNCHANGED <<exc, cmd>>
           ELSE /\ cmd' = ConcatCmd
                /\ IF outcome = "exit_nonzero"
                   THEN /\ disk' = listed
                        /\ events' = events \o <<manifest, run(FALSE)>>
                        /\ log' = Append(log, "error_concatenate")
                        /\ Raise("CalledProcessError", "concatenate_videos")
                   ELSE /\ disk' = written
                        /\ IF check_audio_stream(written, output_path)
                           THEN /\ events' = events \o <<manifest, run(TRUE), probe(TRUE)>>
                                /\ log' = log \o <<"concatenated", "audio_confirmed">>
                                /\ pc' = "extract"
                                /\ exc' = exc
                           ELSE /\ events' = events \o <<manifest, run(TRUE), probe(FALSE)>>
                                /\ log' = log \o <<"concatenated", "no_audio_warning">>
                                /\ Raise("RuntimeError", "concatenate_videos")
    /\ UNCHANGED <<env, temp_dir_created, locals>>

\* lines 262-267
ExtractAudio(outcome) ==
    /\ pc = "extract"
    /\ outcome \in Outcomes
    /\ LET concatenated_video == ConcatenatedPath
           extracted_audio == ExtractedAudioPath
           written == Write(disk, extracted_audio,
                            Content("audio", <<>>, disk[concatenated_video].musics, <<>>,
                                    outcome = "ok"))
           run(ok) == Event("extract", 0, {concatenated_video},
                            IF ok THEN {extracted_audio} ELSE {}, ok, FloatZero, FloatZero)
           probe(ok) == Event("probe_streams", 0, {extracted_audio}, {}, ok,
                              FloatZero, FloatZero)
       IN  /\ cmd' = ExtractCmd
           /\ IF outcome = "exit_nonzero"
              THEN /\ events' = Append(events, run(FALSE))
                   /\ Raise("CalledProcessError", "main")
                   /\ UNCHANGED <<disk, log>>
              ELSE /\ disk' = written
                   /\ IF check_audio_stream(written, extracted_audio)
                      THEN /\ events' = events \o <<run(TRUE), probe(TRUE)>>
                           /\ log' = log \o <<"extracted", "audio_confirmed">>
                           /\ pc' = "attach"
                           /\ exc' = exc
                      ELSE /\ events' = events \o <<run(TRUE), probe(FALSE)>>
                           /\ log' = log \o <<"extracted", "no_audio_warning">>
                           /\ Raise("RuntimeError", "main")
    /\ UNCHANGED <<env, temp_dir_created, locals>>

\* lines 270-271 and attach_audio_to_video (190-211)
AttachAudio(outcome) ==
    /\ pc = "attach"
    /\ outcome \in Outcomes
    /\ LET video_path == ConcatenatedPath
           audio_path == ExtractedAudioPath
           final_video == args.output
           written == Write(disk, final_video,
                            Content("video", disk[video_path].images,
                                    disk[audio_path].musics, <<>>, outcome = "ok"))
           run(ok) == Event("remux", 0, {video_path, audio_path},
                            IF ok THEN {final_video} ELSE {}, ok,
                            FloatZero, IntToFloat(args.duration))
           probe(ok) == Event("probe_streams", 0, {final_video}, {}, ok,
                              FloatZero, FloatZero)
       IN  /\ cmd' = AttachCmd
           /\ IF outcome = "exit_nonzero"
              THEN /\ events' = Append(events, run(FALSE))
                   /\ log' = log \o <<"attaching_audio", "error_attach_audio">>
                   /\ Raise("CalledProcessError", "attach_audio_to_video")
                   /\ UNCHANGED disk
              ELSE /\ disk' = written
                   /\ IF check_audio_stream(written, final_video)
                      THEN /\ events' = events \o <<run(TRUE), probe(TRUE)>>
                           /\ log' = log \o <<"attaching_audio", "final_video_created",
                                              "audio_confirmed">>
                           /\ pc' = "final_probe"
                           /\ exc' = exc
                      ELSE /\ events' = events \o <<run(TRUE), probe(FALSE)>>
                           /\ log' = log \o <<"attaching_audio", "final_video_created",
                                              "no_audio_warning">>
                           /\ Raise("RuntimeError", "attach_audio_to_video")
    /\ UNCHANGED <<env, temp_dir_created, locals>>

\* lines 274-275 and get_audio_duration (156-165)
FinalProbe(outcome) ==
    /\ pc = "final_probe"
    /\ outcome \in {"exit_nonzero", "ok"}
    /\ IF outcome = "ok"
       THEN /\ events' = Append(events, Event("probe_duration", 0, {args.output}, {},
                                              TRUE, FloatZero, FloatZero))
            /\ log' = log \o <<"duration_of", "video_saved">>
            /\ pc' = "done"
            /\ exc' = exc
       ELSE /\ events' = Append(events, Event("probe_duration", 0, {args.output}, {},
                                              FALSE, FloatZero, FloatZero))
            /\ Raise("CalledProcessError", "get_audio_duration")
            /\ log' = log
    /\ UNCHANGED <<env, temp_dir_created, disk, cmd, locals>>

Next ==
    \/ CheckFfmpeg
    \/ EnsureTempDir
    \/ ResolvePaths
    \/ \E outcome \in {"error", "ok"} : ProcessImage(outcome)
    \/ \E outcome \in {"exit_nonzero", "ok"} : GetMusicDuration(outcome)
    \/ \E outcome \in Outcomes : AdjustMusic(outcome)
    \/ \E outcome \in Outcomes : CreateSegment(outcome)
    \/ \E outcome \in Outcomes : Concatenate(outcome)
    \/ \E outcome \in Outcomes : ExtractAudio(outcome)
    \/ \E outcome \in Outcomes : AttachAudio(outcome)
    \/ \E outcome \in {"exit_nonzero", "ok"} : FinalProbe(outcome)

Spec == Init /\ [][Next]_vars

(***************************************************************************)
(* Vocabulary of the properties.                                           *)
(***************************************************************************)
ImageCount == Len(args.images)
MusicCount == Len(args.musics)

EventIndices(step) == {j \in 1..Len(events) : events[j].step = step}

ReachedConcatenation ==
    pc = "concatenate" \/ EventIndices("copy") # {} \/ EventIndices("write_manifest") # {}

SegmentFiles == {q \in DOMAIN disk : q.stem = "segment_"}

AudioKinds == {"clip", "segment", "concat", "audio", "video"}

ConsumingSteps == {"encode", "copy", "concat", "extract", "remux"}

ToolDiagnostics ==
    {"error_adjust_music", "error_creating_segment", "error_concatenate", "error_attach_audio"}

\* C1: when main reaches the concatenation step, exactly n segments exist,
\* segment k was built from the k-th image, and the list handed to
\* concatenate_videos, and the manifest when it is written, name the segments
\* in image order.
SegmentsInImageOrder ==
    ReachedConcatenation =>
        /\ Cardinality(SegmentFiles) = ImageCount
        /\ Len(temp_videos) = ImageCount
        /\ \A k \in 1..ImageCount :
             /\ temp_videos[k] = SegmentPath(k)
             /\ Exists(SegmentPath(k))
             /\ disk[SegmentPath(k)].images = <<AbsPath(args.images[k])>>
        /\ \A j \in EventIndices("concat") \cup EventIndices("copy") :
             \A k \in 1..ImageCount : SegmentPath(k) \in events[j].reads
        /\ Exists(ListFilePath) =>
             disk[ListFilePath].lines = [k \in 1..ImageCount |-> SegmentPath(k)]
        /\ (ImageCount > 1 /\ pc # "concatenate") => Exists(ListFilePath)

SegmentsInImageOrderWitness ==
    /\ ImageCount >= 3
    /\ pc = "extract"
    /\ Exists(ListFilePath)
    /\ Len(disk[ConcatenatedPath].images) = ImageCount

\* C2: an artifact that should carry audio and whose probe reports none is
\* rejected with a fatal error: the failed probe is the last call of the run,
\* and no step ever consumes an artifact without an audio stream, for n = 1
\* (concatenation by copy) as for n > 1.
SilentArtifactsRejected ==
    /\ \A q \in DOMAIN disk :
         (disk[q].kind \in AudioKinds /\ ~disk[q].audio) =>
             /\ pc = "raised"
             /\ exc.type = "RuntimeError"
    /\ \A j \in 1..Len(events) :
         /\ (events[j].step = "probe_streams" /\ ~events[j].ok) =>
                (j = Len(events) /\ pc = "raised" /\ exc.type = "RuntimeError")
         /\ events[j].step \in ConsumingSteps =>
                \A q \in events[j].reads \cap DOMAIN disk :
                    disk[q].kind \in AudioKinds => disk[q].audio

SilentArtifactsRejectedWitness ==
    /\ pc = "raised"
    /\ exc = [type |-> "RuntimeError", stage |-> "concatenate_videos"]
    /\ Exists(ConcatenatedPath)
    /\ ~disk[ConcatenatedPath].audio
    /\ EventIndices("extract") = {}

\* C3: a run that aborts with a processing error leaves no file at the
\* user-specified output path.
NoOutputAfterError ==
    pc = "raised" => ~Exists(args.output)

\* C4: a failed pre-flight check makes main print a diagnostic and return
\* normally without rendering, calling an external tool or writing a file;
\* a missing encoder leaves nothing on disk, not even the scratch directory;
\* no call is made before every image and music path is known to exist.
PreflightFailureIsClean ==
    /\ pc = "returned" =>
         /\ exc = NoException
         /\ log # <<>>
         /\ log[Len(log)] \in {"ffmpeg_not_found", "file_not_found"}
         /\ events = <<>>
         /\ DOMAIN disk = {}
    /\ ~ffmpeg_found =>
         /\ pc \in {"check_ffmpeg", "returned"}
         /\ ~temp_dir_created
         /\ events = <<>>
         /\ DOMAIN disk = {}
    /\ missing # {} =>
         /\ pc \in {"check_ffmpeg", "ensure_temp_dir", "resolve", "returned"}
         /\ exc = NoException
         /\ events = <<>>
         /\ DOMAIN disk = {}

PreflightFailureIsCleanWitness ==
    /\ pc = "returned"
    /\ ffmpeg_found
    /\ missing # {}
    /\ temp_dir_created
    /\ log = <<"file_not_found">>

\* C5: the segment of image i (counted from 0) is built from
\* music[i mod m], and when m > n the tracks n..m-1 are never read.
RoundRobinMusic ==
    /\ \A j \in 1..Len(events) :
         (events[j].step = "trim" \/ (events[j].step = "probe_duration" /\ events[j].index > 0))
             => events[j].reads = {AbsPath(args.musics[((events[j].index - 1) % MusicCount) + 1])}
    /\ \A k \in 1..ImageCount :
         Exists(SegmentPath(k)) =>
             disk[SegmentPath(k)].musics = <<AbsPath(args.musics[((k - 1) % MusicCount) + 1])>>
    /\ \A k \in (ImageCount + 1)..MusicCount :
         \A j \in 1..Len(events) : AbsPath(args.musics[k]) \notin events[j].reads

RoundRobinMusicWitness ==
    /\ MusicCount = 2
    /\ ImageCount >= 3
    /\ Exists(SegmentPath(3))
    /\ disk[SegmentPath(3)].musics = <<AbsPath(args.musics[1])>>

(***************************************************************************)
(* Timing.                                                                 *)
(***************************************************************************)
Requested == IntToFloat(args.duration)

\* |f - g|
FloatDistance(f, g) == IF FloatCmp(f, g) >= 0 THEN FloatSub(f, g) ELSE FloatSub(g, f)

\* the requested duration times 2^-50
RoundingTolerance == [m |-> Requested.m, e |-> Requested.e - 50]

WithinRounding(f, g) == FloatCmp(FloatDistance(f, g), RoundingTolerance) <= 0

Identical(f, g) == f = g

\* every trim and encode is given d = D / n, trim i the offset i * d, and
\* the remux D
DurationsAndOffsetsGiven ==
    /\ pc \notin {"check_ffmpeg", "ensure_temp_dir", "resolve", "returned"} =>
           duration_per_image = FloatDivInt(args.duration, ImageCount)
    /\ \A j \in 1..Len(events) :
         /\ events[j].step = "trim" =>
              /\ events[j].t = duration_per_image
              /\ events[j].ss = FloatMulInt(events[j].index - 1, duration_per_image)
         /\ events[j].step = "encode" => events[j].t = duration_per_image
         /\ events[j].step = "remux" => events[j].t = Requested

\* d * n is D, consecutive offsets are d apart, the last offset plus d is D,
\* each up to Same
TimingRelations(Same(_, _)) ==
    \A j \in EventIndices("trim") :
        /\ Same(FloatMulInt(ImageCount, events[j].t), Requested)
        /\ \A h \in EventIndices("trim") :
             events[h].index = events[j].index - 1 =>
                 Same(FloatSub(events[j].ss, events[h].ss), events[j].t)
        /\ events[j].index = ImageCount =>
             Same(FloatAdd(events[j].ss, events[j].t), Requested)

\* C6 as claimed: the segments get d = D / n and the offsets i * d, with
\* d * n = D, consecutive offsets exactly d apart and the last offset plus d
\* equal to D; the remux pass gets D.
TimingExact ==
    /\ DurationsAndOffsetsGiven
    /\ TimingRelations(Identical)

\* C6 as amended: the same durations and offsets are given, computed in
\* binary64; the three equalities hold exactly when n divides D and within
\* rounding (D * 2^-50) otherwise.
TimingWithinRounding ==
    /\ DurationsAndOffsetsGiven
    /\ IF args.duration % ImageCount = 0
       THEN TimingRelations(Identical)
       ELSE TimingRelations(WithinRounding)

TimingWithinRoundingWitness ==
    /\ pc = "done"
    /\ args.duration = 1
    /\ ImageCount = 5
    /\ \E j, h \in EventIndices("trim") :
         /\ events[j].index = 4
         /\ events[h].index = 3
         /\ FloatSub(events[j].ss, events[h].ss) # events[j].t
         /\ WithinRounding(FloatSub(events[j].ss, events[h].ss), events[j].t)

\* the trim command is the last one built
TrimCommandBuilt == cmd # <<>> /\ cmd[Len(cmd)] = "adjusted_path"

\* the options of the input named by token: what precedes its "-i"
InputOptionsOf(command, token) ==
    SubSeq(command, 1, (CHOOSE j \in 1..Len(command) : command[j] = token) - 2)

Contains(list, token) == \E j \in 1..Len(list) : list[j] = token

\* C7: when start_time + duration exceeds the probed source duration the
\* loop option is among the options of the music input of the trim command,
\* and otherwise the command asks for no looping.
LoopOptionOnMusicInput ==
    TrimCommandBuilt =>
        IF FloatGreater(FloatAdd(start_time, duration_per_image), music_duration)
        THEN Contains(InputOptionsOf(cmd, "music_path"), "-stream_loop")
        ELSE ~Contains(cmd, "-stream_loop")

\* C8: every non-zero exit of an external tool is logged with the tool's
\* exit code and stderr before the error leaves main.
ToolFailuresLogged ==
    exc.type = "CalledProcessError" =>
        /\ log # <<>>
        /\ log[Len(log)] \in ToolDiagnostics

(***************************************************************************)
(* Order of the calls.                                                     *)
(***************************************************************************)
Calls == [j \in 1..Len(events) |-> <<events[j].step, events[j].index>>]

RECURSIVE PerImageCalls(_, _)
PerImageCalls(k, n) ==
    IF k > n THEN <<>>
    ELSE <<<<"render", k>>, <<"probe_duration", k>>, <<"trim", k>>, <<"probe_streams", k>>,
           <<"encode", k>>, <<"probe_streams", k>>>> \o PerImageCalls(k + 1, n)

ExpectedCalls(n) ==
    PerImageCalls(1, n)
    \o (IF n = 1 THEN <<<<"copy", 0>>>>
        ELSE <<<<"write_manifest", 0>>, <<"concat", 0>>, <<"probe_streams", 0>>>>)
    \o <<<<"extract", 0>>, <<"probe_streams", 0>>, <<"remux", 0>>, <<"probe_streams", 0>>,
         <<"probe_duration", 0>>>>

\* C9: a successful run makes its calls in this order, each once: per image
\* in list order render, trim, encode (each validated before the next
\* image); then one concatenation, by file copy alone when n = 1; then one
\* extraction, one remux, and the final duration probe.
CallsInOrder ==
    /\ pc = "done" =>
         /\ Calls = ExpectedCalls(ImageCount)
         /\ SubSeq(log, Len(log) - 1, Len(log)) = <<"duration_of", "video_saved">>
    /\ \A j \in 1..Len(events) : events[j].ok \/ j = Len(events)
    /\ ImageCount = 1 => EventIndices("concat") = {} /\ ~Exists(ListFilePath)

CallsInOrderWitness ==
    /\ pc = "done"
    /\ ImageCount = 1
    /\ EventIndices("copy") # {}
    /\ EventIndices("remux") # {}

(***************************************************************************)
(* Scratch files.                                                          *)
(***************************************************************************)
ScratchPaths ==
    {TempImagePath(k) : k \in 1..ImageCount}
    \cup {AdjustedMusicPath(k) : k \in 1..ImageCount}
    \cup {SegmentPath(k) : k \in 1..ImageCount}
    \cup {ListFilePath, ConcatenatedPath, ExtractedAudioPath}

Consumers(path) ==
    {j \in 1..Len(events) : events[j].step \in ConsumingSteps /\ path \in events[j].reads}

\* C10: the scratch artifacts of a run have pairwise distinct paths, each
\* written at most once; no step writes a path an earlier step wrote or
\* read; frame k and clip k are consumed once, by the encode of segment k.
ScratchWrittenOnce ==
    /\ Cardinality(ScratchPaths) = 3 * ImageCount + 3
    /\ \A q \in DOMAIN disk : q # args.output => q \in ScratchPaths
    /\ \A j \in 1..Len(events) :
         \A q \in events[j].writes :
             \A h \in 1..(j - 1) : q \notin events[h].writes /\ q \notin events[h].reads
    /\ \A k \in 1..ImageCount :
         \A q \in {TempImagePath(k), AdjustedMusicPath(k)} :
             /\ Cardinality(Consumers(q)) <= 1
             /\ \A j \in Consumers(q) : events[j].step = "encode" /\ events[j].index = k
             /\ Exists(SegmentPath(k)) => Cardinality(Consumers(q)) = 1

ScratchWrittenOnceWitness ==
    /\ pc = "done"
    /\ ImageCount >= 3
    /\ Cardinality(DOMAIN disk) = 3 * ImageCount + 4

====
